---------------------------- MODULE Spec2Model ----------------------------
(***************************************************************************)
(* Web Live Annotator (src/app.py): the frame-acquisition loop of          *)
(* FrameGrabber, the latest-frame hand-off, the paced Recorder, the        *)
(* Session with its annotation timeline, and the control handlers that     *)
(* drive them.  Every thread of the program is a thread of the model, with *)
(* a program counter pc[t]; one action is one step of one thread between   *)
(* two accesses to shared state.                                           *)
(***************************************************************************)
EXTENDS Integers, Sequences, FiniteSets, TLC

(***************************************************************************)
(* Bounds of the model.                                                    *)
(***************************************************************************)
MaxFrames == 2      \* frames the source delivers
MaxHandles == 2     \* capture handles the source lets be opened
MaxClock == 2       \* ticks of the monotonic clock
MaxRequests == 4    \* requests the server accepts
MaxRec == 2         \* Recorder objects start_session creates
MaxCalls == 3       \* calls of Recorder.start and Recorder.stop made directly
MaxConcurrent == 3  \* requests the server accepts when it handles two at a time
MaxRecording == 2   \* requests the server accepts while the write loops run
MaxPaceClock == 9   \* ticks of the clock while the Recorder's pacing is observed
WriteTicks == 1     \* ticks a call of VideoWriter.write takes at least

\* the clock of the pacing loop counts tenths of a second
TicksPerSecond == 10
\* the longest single sleep of the pacing loop, 0.2 s
SleepCap == 2
\* the --fps values the pacing loop is observed with
FpsChoices == {1, 2, 5, 10}

(***************************************************************************)
(* Threads.  Main runs create_app; the request threads are the threaded    *)
(* server's workers; the loop threads are the Thread objects               *)
(* FrameGrabber.start creates.                                             *)
(***************************************************************************)
Main == "main"
Requests == {"r1", "r2"}
LoopId == <<"g1", "g2">>
Loops == {LoopId[i] : i \in 1..Len(LoopId)}
RecThreadId == <<"w1", "w2", "w3">>
RecThreads == {RecThreadId[i] : i \in 1..Len(RecThreadId)}
Threads == {Main} \cup Requests \cup Loops \cup RecThreads

\* a frame is an array of FrameCells cells; frame number n holds n in every cell
FrameCells == 2
Frame(n) == [i \in 1..FrameCells |-> n]
NoFrame == Frame(0)
Objects == 1..MaxFrames

VARIABLES
    pc,          \* pc[t]: where thread t stands
    retpc,       \* retpc[t]: where t continues when the call it is in returns
    exc,         \* exc[t]: the exception that ended t's call, or "none"
    g_thread,    \* FrameGrabber._thread: "none" or a loop thread
    nThreads,    \* Thread objects FrameGrabber.start has created
    stop_evt,    \* FrameGrabber._stop_evt
    cap,         \* FrameGrabber._cap: 0 (None) or a capture handle
    status,      \* FrameGrabber._status
    frame_lock,  \* FrameGrabber._frame_lock: "free" or its holder
    latest_bgr,  \* FrameGrabber._latest_bgr: 0 (None) or an array object
    pix,         \* pix[o]: the cells of array object o
    nHandles,    \* capture handles opened so far
    hopen,       \* the handles opened and not released
    nDecoded,    \* frames decoded so far
    lcap,        \* lcap[l]: local cap of _open_cap in loop thread l
    lframe,      \* lframe[l]: local frame of _run in loop thread l
    fr,          \* fr[t]: the array get_latest_frame of thread t copies
    cp,          \* cp[t]: the cells copied so far
    ret,         \* ret[t]: what get_latest_frame returned to t (<<>> is None)
    lastOutcome, \* history: the last outcome the loop saw
    published,   \* history: the frame numbers published so far
    now,         \* time.perf_counter(), the monotonic clock
    session,     \* the Session object of create_app
    rec,         \* rec[i]: the i-th Recorder object start_session created
    nRec,        \* Recorder objects created so far
    wrec,        \* wrec[w]: the Recorder whose _run recorder thread w executes
    nRecThreads, \* Thread objects Recorder.start has created
    pace,        \* pace[w]: the locals of _run in recorder thread w, and the
                 \* times at which it has called write
    loc,         \* loc[t]: the local variables of request thread t
    json_files,  \* the session record stop_and_quit wrote last, if any
    timer,       \* a shutdown timer of stop_and_quit is pending
    down,        \* the server was shut down: no request is accepted
    nReq,        \* requests accepted so far
    load,        \* what a run is given: the requests the clients send, how
                 \* many in all (quota) and at a time (par), the --fps of
                 \* the server, how far the clock runs (ticks), and whether
                 \* the video source may fail (source "any") or has stopped
                 \* failing for good (source "good")
    elMax,       \* history: greatest elapsed() result since t0 was last set
    elMaxEver    \* history: greatest elapsed() result ever returned

gvars == <<g_thread, nThreads, stop_evt, cap, status, nHandles, hopen>>
fvars == <<frame_lock, latest_bgr, pix, nDecoded>>
lvars == <<lcap, lframe>>
rvars == <<fr, cp, ret>>
hvars == <<lastOutcome, published>>
tvars == <<pc, retpc, exc>>
grab == <<gvars, fvars, lvars, rvars, hvars>>
cvars == <<now>>
kvars == <<rec, nRec, wrec, nRecThreads, pace>>
qvars == <<loc, json_files, timer, down, nReq, load>>
evars == <<elMax, elMaxEver>>
sess == <<cvars, session, kvars, qvars, evars>>
vars == <<tvars, grab, sess>>

Alive(l) == pc[l] \notin {"unborn", "dead"}

Goto(t, p) == pc' = [pc EXCEPT ![t] = p]
\* return from the call thread t is in
Return(t) == /\ pc' = [pc EXCEPT ![t] = retpc[t]]
             /\ UNCHANGED <<retpc, exc>>
\* an uncaught exception: a loop thread dies, a request ends in an error
Raise(t, e) == /\ pc' = [pc EXCEPT ![t] = IF t \in Requests THEN "idle" ELSE "dead"]
               /\ exc' = [exc EXCEPT ![t] = e]
               /\ UNCHANGED retpc
Call(t, p, r) == /\ pc' = [pc EXCEPT ![t] = p]
                 /\ retpc' = [retpc EXCEPT ![t] = r]
                 /\ exc' = [exc EXCEPT ![t] = "none"]

InitGrabber ==
    /\ retpc = [t \in Threads |-> "idle"]
    /\ exc = [t \in Threads |-> "none"]
    /\ g_thread = "none"
    /\ nThreads = 0
    /\ stop_evt = FALSE
    /\ cap = 0
    /\ status = "idle"
    /\ frame_lock = "free"
    /\ latest_bgr = 0
    /\ pix = [o \in Objects |-> NoFrame]
    /\ nHandles = 0
    /\ hopen = {}
    /\ nDecoded = 0
    /\ lcap = [l \in Loops |-> 0]
    /\ lframe = [l \in Loops |-> 0]
    /\ fr = [t \in Threads |-> 0]
    /\ cp = [t \in Threads |-> <<>>]
    /\ ret = [t \in Threads |-> <<>>]
    /\ lastOutcome = "none"
    /\ published = {}

(***************************************************************************)
(* Texts.  A text is a sequence of characters; str.strip removes the       *)
(* leading and the trailing whitespace; str(None), the text of a JSON      *)
(* null, is "None".                                                        *)
(***************************************************************************)
Null == <<"null">>
Bodies == {<<>>, <<" ">>, <<"a">>, <<" ", "b", " ">>, Null}
Str(b) == IF b = Null THEN <<"N", "o", "n", "e">> ELSE b

RECURSIVE LStrip(_)
LStrip(s) == IF s # <<>> /\ Head(s) = " " THEN LStrip(Tail(s)) ELSE s
RECURSIVE RStrip(_)
RStrip(s) == IF s # <<>> /\ s[Len(s)] = " "
                THEN RStrip(SubSeq(s, 1, Len(s) - 1)) ELSE s
Strip(s) == RStrip(LStrip(s))

None == -1
NoStamp == "none"
Max(a, b) == IF a >= b THEN a ELSE b

\* Session.__init__
NewSession == [started_at_iso |-> NoStamp, t0_monotonic |-> None,
               annotations |-> <<>>, recorder |-> 0, recording_path |-> NoStamp]
\* Recorder.__init__; created and wrote are history: the VideoWriter objects
\* this Recorder has created, and the last frame it has written
NewRecorder == [path |-> NoStamp, writer |-> "none", thread |-> "none",
                stop_evt |-> FALSE, active |-> FALSE, created |-> 0, wrote |-> 0]
Recs == 1..MaxRec

\* _run's locals target_dt and next_t, the time its sleep ends, and the
\* history of its writes
NewPace == [target_dt |-> 0, next_t |-> 0, until |-> 0, writes |-> <<>>]
NewLocals == [text |-> <<>>, p |-> 0, el |-> 0, floor |-> 0, floorEver |-> 0,
              cur |-> 0, item |-> <<>>, started_at |-> NoStamp, started |-> 0,
              req |-> "none", body |-> <<>>, resp |-> "none"]

\* the locals of a request that begins, and of one that has answered
Begun(t, req) == [loc EXCEPT ![t] = [NewLocals EXCEPT !.req = req]]
Answered(t, resp, item) ==
    [loc EXCEPT ![t] = [NewLocals EXCEPT !.req = loc[t].req, !.body = loc[t].body,
                                         !.resp = resp, !.item = item]]

SessionFresh ==
    /\ now = 0
    /\ session = NewSession
    /\ rec = [i \in Recs |-> NewRecorder]
    /\ nRec = 0
    /\ wrec = [w \in RecThreads |-> 0]
    /\ nRecThreads = 0
    /\ pace = [w \in RecThreads |-> NewPace]
    /\ loc = [t \in Requests |-> NewLocals]
    /\ json_files = <<>>
    /\ timer = FALSE
    /\ down = FALSE
    /\ nReq = 0
    /\ elMax = 0
    /\ elMaxEver = 0

InitSession ==
    /\ SessionFresh
    /\ load = [quota |-> MaxRequests, par |-> 1, fps |-> 10, ticks |-> MaxClock,
               source |-> "any"]

(***************************************************************************)
(* FrameGrabber.start, called by thread t.                                 *)
(***************************************************************************)
\* if self._thread and self._thread.is_alive(): return
StartCheck(t) ==
    /\ pc[t] = "start_chk"
    /\ IF g_thread # "none" /\ Alive(g_thread)
          THEN Return(t)
          ELSE Goto(t, "start_clear") /\ UNCHANGED <<retpc, exc>>
    /\ UNCHANGED <<gvars, fvars, lvars, rvars, hvars>>
    /\ UNCHANGED sess

\* self._stop_evt.clear()
StartClear(t) ==
    /\ pc[t] = "start_clear"
    /\ stop_evt' = FALSE
    /\ Goto(t, "start_new")
    /\ UNCHANGED <<retpc, exc, g_thread, nThreads, cap, status, nHandles, hopen,
                   fvars, lvars, rvars, hvars>>
    /\ UNCHANGED sess

\* self._thread = threading.Thread(target=self._run, daemon=True)
StartNew(t) ==
    /\ pc[t] = "start_new"
    /\ nThreads < Len(LoopId)
    /\ nThreads' = nThreads + 1
    /\ g_thread' = LoopId[nThreads + 1]
    /\ Goto(t, "start_go")
    /\ UNCHANGED <<retpc, exc, stop_evt, cap, status, nHandles, hopen,
                   fvars, lvars, rvars, hvars>>
    /\ UNCHANGED sess

\* self._thread.start(): a Thread object starts once, a second start raises
StartGo(t) ==
    /\ pc[t] = "start_go"
    /\ IF pc[g_thread] = "unborn"
          THEN /\ pc' = [pc EXCEPT ![t] = retpc[t], ![g_thread] = "run_top"]
               /\ UNCHANGED <<retpc, exc>>
          ELSE Raise(t, "RuntimeError")
    /\ UNCHANGED <<gvars, fvars, lvars, rvars, hvars>>
    /\ UNCHANGED sess

(***************************************************************************)
(* FrameGrabber._release_cap: release the handle self._cap names, if any,  *)
(* and clear self._cap.  An exception of release() is swallowed.           *)
(***************************************************************************)
ReleaseCap ==
    /\ hopen' = hopen \ {cap}
    /\ cap' = 0

(***************************************************************************)
(* FrameGrabber.stop, called by thread t.                                  *)
(***************************************************************************)
\* self._stop_evt.set()
StopSet(t) ==
    /\ pc[t] = "stop_set"
    /\ stop_evt' = TRUE
    /\ Goto(t, "stop_join")
    /\ UNCHANGED <<retpc, exc, g_thread, nThreads, cap, status, nHandles, hopen,
                   fvars, lvars, rvars, hvars>>
    /\ UNCHANGED sess

\* if self._thread: self._thread.join(timeout=2.0)
\* join returns when the thread has ended or when the timeout has passed;
\* joining a thread that was never started raises
StopJoin(t) ==
    /\ pc[t] = "stop_join"
    /\ IF g_thread # "none" /\ pc[g_thread] = "unborn"
          THEN Raise(t, "RuntimeError")
          ELSE Goto(t, "stop_rel") /\ UNCHANGED <<retpc, exc>>
    /\ UNCHANGED <<gvars, fvars, lvars, rvars, hvars>>
    /\ UNCHANGED sess

\* self._release_cap()
StopRelease(t) ==
    /\ pc[t] = "stop_rel"
    /\ ReleaseCap
    /\ Return(t)
    /\ UNCHANGED <<g_thread, nThreads, stop_evt, status, nHandles,
                   fvars, lvars, rvars, hvars>>
    /\ UNCHANGED sess

(***************************************************************************)
(* FrameGrabber._run, the acquisition loop of loop thread l, with          *)
(* _open_cap inlined.                                                      *)
(***************************************************************************)
\* while not self._stop_evt.is_set():
RunTop(l) ==
    /\ pc[l] = "run_top"
    /\ Goto(l, IF stop_evt THEN "dead" ELSE "run_chk")
    /\ UNCHANGED <<retpc, exc, gvars, fvars, lvars, rvars, hvars>>
    /\ UNCHANGED sess

\* if self._cap is None: self._open_cap()
RunCheckCap(l) ==
    /\ pc[l] = "run_chk"
    /\ Goto(l, IF cap = 0 THEN "open_begin" ELSE "run_read")
    /\ UNCHANGED <<retpc, exc, gvars, fvars, lvars, rvars, hvars>>
    /\ UNCHANGED sess

\* _open_cap: self._status = "connecting"
OpenBegin(l) ==
    /\ pc[l] = "open_begin"
    /\ status' = "connecting"
    /\ Goto(l, "open_try")
    /\ UNCHANGED <<retpc, exc, g_thread, nThreads, stop_evt, cap, nHandles, hopen,
                   fvars, lvars, rvars, hvars>>
    /\ UNCHANGED sess

\* _open_cap: cap = cv2.VideoCapture(self.source); if not cap.isOpened():
\*            self._status = "error"; return False
OpenTry(l) ==
    /\ pc[l] = "open_try"
    /\ \/ /\ load.source = "any"
          /\ status' = "error"
          /\ lastOutcome' = "open_fail"
          /\ Goto(l, "run_sleep")
          /\ UNCHANGED <<nHandles, hopen, lcap>>
       \/ /\ nHandles < MaxHandles
          /\ nHandles' = nHandles + 1
          /\ hopen' = hopen \cup {nHandles + 1}
          /\ lcap' = [lcap EXCEPT ![l] = nHandles + 1]
          /\ Goto(l, "open_set")
          /\ UNCHANGED <<status, lastOutcome>>
    /\ UNCHANGED <<retpc, exc, g_thread, nThreads, stop_evt, cap,
                   fvars, lframe, rvars, published>>
    /\ UNCHANGED sess

\* _open_cap: _ = cap.read(); self._cap = cap
OpenSet(l) ==
    /\ pc[l] = "open_set"
    /\ cap' = lcap[l]
    /\ Goto(l, "open_done")
    /\ UNCHANGED <<retpc, exc, g_thread, nThreads, stop_evt, status, nHandles,
                   hopen, fvars, lvars, rvars, hvars>>
    /\ UNCHANGED sess

\* _open_cap: self._status = "streaming"; return True
OpenDone(l) ==
    /\ pc[l] = "open_done"
    /\ status' = "streaming"
    /\ lastOutcome' = "open_ok"
    /\ Goto(l, "run_read")
    /\ UNCHANGED <<retpc, exc, g_thread, nThreads, stop_evt, cap, nHandles, hopen,
                   fvars, lvars, rvars, published>>
    /\ UNCHANGED sess

\* time.sleep(self.reconnect_delay); continue
RunSleep(l) ==
    /\ pc[l] = "run_sleep"
    /\ Goto(l, "run_top")
    /\ UNCHANGED <<retpc, exc, gvars, fvars, lvars, rvars, hvars>>
    /\ UNCHANGED sess

\* mutant: cap.read(self._latest_bgr), decoding into the published array
ReadTargetInPlace == IF latest_bgr # 0 THEN latest_bgr ELSE nDecoded + 1

\* the array cap.read() decodes into: a fresh one
ReadTarget == nDecoded + 1

\* ok, frame = self._cap.read(): self._cap may have been cleared by stop
\* (AttributeError ends the thread); a released handle delivers nothing;
\* an open one delivers the next frame or fails.  The decoder fills the
\* array cell by cell: this step fills the first cell.
RunRead(l) ==
    /\ pc[l] = "run_read"
    /\ IF cap = 0
          THEN /\ Raise(l, "AttributeError")
               /\ UNCHANGED <<lframe, pix, nDecoded, lastOutcome>>
          ELSE /\ \/ /\ load.source = "any" \/ cap \notin hopen
                     /\ Goto(l, "read_fail")
                     /\ UNCHANGED <<lframe, pix, nDecoded, lastOutcome>>
                  \/ /\ cap \in hopen
                     /\ nDecoded < MaxFrames
                     /\ nDecoded' = nDecoded + 1
                     /\ lframe' = [lframe EXCEPT ![l] = ReadTarget]
                     /\ pix' = [pix EXCEPT ![ReadTarget][1] = nDecoded + 1]
                     /\ lastOutcome' = "read_ok"
                     /\ Goto(l, "run_read2")
               /\ UNCHANGED <<retpc, exc>>
    /\ UNCHANGED <<gvars, frame_lock, latest_bgr, lcap, rvars, published>>
    /\ UNCHANGED sess

\* cap.read(), continued: the decoder fills the rest of the array
RunRead2(l) ==
    /\ pc[l] = "run_read2"
    /\ pix' = [pix EXCEPT ![lframe[l]] =
                  [i \in 1..FrameCells |-> pix[lframe[l]][1]]]
    /\ Goto(l, "run_lock")
    /\ UNCHANGED <<retpc, exc, gvars, frame_lock, latest_bgr, nDecoded,
                   lvars, rvars, hvars>>
    /\ UNCHANGED sess

\* mutant: the read failure is not reported in the status
ReadFailSilent(l) ==
    /\ pc[l] = "read_fail"
    /\ lastOutcome' = "read_fail"
    /\ Goto(l, "run_release")
    /\ UNCHANGED <<retpc, exc, gvars, fvars, lvars, rvars, published>>
    /\ UNCHANGED sess

\* mutant: the read failure also drops the latest frame
ReadFailClears(l) ==
    /\ pc[l] = "read_fail"
    /\ status' = "error"
    /\ lastOutcome' = "read_fail"
    /\ latest_bgr' = 0
    /\ Goto(l, "run_release")
    /\ UNCHANGED <<retpc, exc, g_thread, nThreads, stop_evt, cap, nHandles, hopen,
                   frame_lock, pix, nDecoded, lvars, rvars, published>>
    /\ UNCHANGED sess

\* if not ok or frame is None: self._status = "error"
ReadFail(l) ==
    /\ pc[l] = "read_fail"
    /\ status' = "error"
    /\ lastOutcome' = "read_fail"
    /\ Goto(l, "run_release")
    /\ UNCHANGED <<retpc, exc, g_thread, nThreads, stop_evt, cap, nHandles, hopen,
                   fvars, lvars, rvars, published>>
    /\ UNCHANGED sess

\* mutant: the handle whose read failed is kept
RunReleaseKeeps(l) ==
    /\ pc[l] = "run_release"
    /\ Goto(l, "run_sleep")
    /\ UNCHANGED <<retpc, exc, gvars, fvars, lvars, rvars, hvars>>
    /\ UNCHANGED sess

\* self._release_cap()
RunRelease(l) ==
    /\ pc[l] = "run_release"
    /\ ReleaseCap
    /\ Goto(l, "run_sleep")
    /\ UNCHANGED <<retpc, exc, g_thread, nThreads, stop_evt, status, nHandles,
                   fvars, lvars, rvars, hvars>>
    /\ UNCHANGED sess

\* with self._frame_lock:
RunLock(l) ==
    /\ pc[l] = "run_lock"
    /\ frame_lock = "free"
    /\ frame_lock' = l
    /\ Goto(l, "run_pub")
    /\ UNCHANGED <<retpc, exc, gvars, latest_bgr, pix, nDecoded,
                   lvars, rvars, hvars>>
    /\ UNCHANGED sess

\*     self._latest_bgr = frame   (and the lock is released)
RunPublish(l) ==
    /\ pc[l] = "run_pub"
    /\ latest_bgr' = lframe[l]
    /\ frame_lock' = "free"
    /\ published' = published \cup {pix[lframe[l]][1]}
    /\ Goto(l, "run_top")
    /\ UNCHANGED <<retpc, exc, gvars, pix, nDecoded, lvars, rvars, lastOutcome>>
    /\ UNCHANGED sess

LoopStep(l) ==
    \/ RunTop(l) \/ RunCheckCap(l) \/ OpenBegin(l) \/ OpenTry(l) \/ OpenSet(l)
    \/ OpenDone(l) \/ RunSleep(l) \/ RunRead(l) \/ RunRead2(l) \/ ReadFail(l)
    \/ RunRelease(l) \/ RunLock(l) \/ RunPublish(l)

(***************************************************************************)
(* FrameGrabber.get_latest_frame, called by thread t.                      *)
(***************************************************************************)
\* with self._frame_lock:
GlfLock(t) ==
    /\ pc[t] = "glf_lock"
    /\ frame_lock = "free"
    /\ frame_lock' = t
    /\ Goto(t, "glf_ref")
    /\ UNCHANGED <<retpc, exc, gvars, latest_bgr, pix, nDecoded,
                   lvars, rvars, hvars>>
    /\ UNCHANGED sess

\*     return None if self._latest_bgr is None else ...
GlfRef(t) ==
    /\ pc[t] = "glf_ref"
    /\ IF latest_bgr = 0
          THEN /\ ret' = [ret EXCEPT ![t] = <<>>]
               /\ frame_lock' = "free"
               /\ Return(t)
               /\ UNCHANGED <<fr, cp>>
          ELSE /\ fr' = [fr EXCEPT ![t] = latest_bgr]
               /\ cp' = [cp EXCEPT ![t] = <<>>]
               /\ Goto(t, "glf_copy")
               /\ UNCHANGED <<retpc, exc, ret, frame_lock>>
    /\ UNCHANGED <<gvars, latest_bgr, pix, nDecoded, lvars, hvars>>
    /\ UNCHANGED sess

\*     ... self._latest_bgr.copy(): the copy is made cell by cell
GlfCopy(t) ==
    /\ pc[t] = "glf_copy"
    /\ Len(cp[t]) < FrameCells
    /\ cp' = [cp EXCEPT ![t] = Append(@, pix[fr[t]][Len(@) + 1])]
    /\ UNCHANGED <<tvars, gvars, fvars, lvars, fr, ret, hvars>>
    /\ UNCHANGED sess

\*     the copy is complete: the lock is released and the copy returned
GlfReturn(t) ==
    /\ pc[t] = "glf_copy"
    /\ Len(cp[t]) = FrameCells
    /\ ret' = [ret EXCEPT ![t] = cp[t]]
    /\ cp' = [cp EXCEPT ![t] = <<>>]
    /\ fr' = [fr EXCEPT ![t] = 0]
    /\ frame_lock' = "free"
    /\ Return(t)
    /\ UNCHANGED <<gvars, latest_bgr, pix, nDecoded, lvars, hvars>>
    /\ UNCHANGED sess

GlfStep(t) == GlfLock(t) \/ GlfRef(t) \/ GlfCopy(t) \/ GlfReturn(t)

(***************************************************************************)
(* The callers of the grabber in the program: create_app starts it, the    *)
(* snapshot handler reads the latest frame, the stop handler stops it.     *)
(***************************************************************************)
Serving == pc[Main] = "serving"

\* create_app: grabber.start()
MainStart ==
    /\ pc[Main] = "create_app"
    /\ Call(Main, "start_chk", "serving")
    /\ UNCHANGED <<gvars, fvars, lvars, rvars, hvars>>
    /\ UNCHANGED sess

\* snap: jpg = grabber.get_latest_jpeg(quality=85) -> get_latest_frame()
SnapRequest(t) ==
    /\ Serving
    /\ pc[t] = "idle"
    /\ Call(t, "glf_lock", "idle")
    /\ UNCHANGED <<gvars, fvars, lvars, rvars, hvars>>
    /\ UNCHANGED sess

\* stop_and_quit: grabber.stop()
StopRequest(t) ==
    /\ Serving
    /\ pc[t] = "idle"
    /\ Call(t, "stop_set", "idle")
    /\ UNCHANGED <<gvars, fvars, lvars, rvars, hvars>>
    /\ UNCHANGED sess

Init ==
    /\ InitGrabber
    /\ InitSession
    /\ pc = [t \in Threads |->
               IF t = Main THEN "create_app"
               ELSE IF t \in Requests THEN "idle" ELSE "unborn"]

Next ==
    \/ MainStart
    \/ \E t \in {Main} : StartCheck(t) \/ StartClear(t) \/ StartNew(t) \/ StartGo(t)
    \/ \E t \in Requests : SnapRequest(t) \/ StopRequest(t)
    \/ \E t \in Requests : StopSet(t) \/ StopJoin(t) \/ StopRelease(t)
    \/ \E t \in Requests : GlfStep(t)
    \/ \E l \in Loops : LoopStep(l)

Spec == Init /\ [][Next]_vars

(***************************************************************************)
(* The clocks.  perf_counter never goes back.  The wall clock is read only *)
(* to stamp the session and to name files: its reading is one opaque       *)
(* Stamp.                                                                  *)
(***************************************************************************)
Tick ==
    /\ now < load.ticks
    /\ now' = now + 1
    /\ UNCHANGED <<tvars, grab, session, kvars, qvars, evars>>

\* now_utc_iso() and ts_filename(): the wall clock's value, formatted
Stamp == "stamp"
now_utc_iso == Stamp
ts_filename == Stamp

\* the server accepts a request on an idle worker thread: the workers are
\* alike, the first idle one takes it
WorkerOrder == [r \in Requests |-> IF r = "r1" THEN 1 ELSE 2]

Accept(t) ==
    /\ Serving
    /\ ~down
    /\ pc[t] = "idle"
    /\ \A r \in Requests : pc[r] = "idle" => WorkerOrder[t] <= WorkerOrder[r]
    /\ Cardinality({r \in Requests : pc[r] # "idle"}) < load.par
    /\ nReq < load.quota
    /\ nReq' = nReq + 1

(***************************************************************************)
(* Session.elapsed, called by thread t.                                    *)
(***************************************************************************)
\* mutant: a session that was never started reports the clock
ElapsedUnstartedClock == now

\* if self.t0_monotonic is None: return 0.0
ElapsedUnstarted == 0

\* max(0.0, time.perf_counter() - self.t0_monotonic)
ElapsedSince(p, t0) == Max(0, p - t0)

\* if self.t0_monotonic is None: return 0.0;  ... time.perf_counter() ...
El1(t) ==
    /\ pc[t] = "el_1"
    /\ IF session.t0_monotonic = None
          THEN /\ loc' = [loc EXCEPT ![t].el = ElapsedUnstarted]
               /\ elMax' = Max(elMax, ElapsedUnstarted)
               /\ elMaxEver' = Max(elMaxEver, ElapsedUnstarted)
               /\ Return(t)
          ELSE /\ loc' = [loc EXCEPT ![t].p = now,
                                     ![t].floor = elMax,
                                     ![t].floorEver = elMaxEver]
               /\ Goto(t, "el_2")
               /\ UNCHANGED <<retpc, exc, evars>>
    /\ UNCHANGED <<grab, cvars, session, kvars, json_files, timer, down, nReq, load>>

\* return max(0.0, ... - self.t0_monotonic)
El2(t) ==
    /\ pc[t] = "el_2"
    /\ LET e == ElapsedSince(loc[t].p, session.t0_monotonic) IN
          /\ loc' = [loc EXCEPT ![t].el = e, ![t].p = 0, ![t].floor = 0,
                                ![t].floorEver = 0]
          /\ elMax' = Max(elMax, e)
          /\ elMaxEver' = Max(elMaxEver, e)
    /\ Return(t)
    /\ UNCHANGED <<grab, cvars, session, kvars, json_files, timer, down, nReq, load>>

(***************************************************************************)
(* The annotate handler and Session.add.                                   *)
(***************************************************************************)
\* mutant: the text is not stripped before it is tested
BodyTextUnstripped(b) == Str(b)

\* text = str(data.get("text", "")).strip()
BodyText(b) == Strip(Str(b))

\* annotate: if text == "": return 400; else session.add(text), which
\* first calls self.elapsed()
AnnotateRequest(t) ==
    /\ Accept(t)
    /\ \E b \in Bodies :
          IF BodyText(b) = <<>>
             THEN /\ loc' = [loc EXCEPT ![t] =
                                       [NewLocals EXCEPT !.req = "annotate",
                                                         !.body = b,
                                                         !.resp = "400"]]
                  /\ UNCHANGED tvars
             ELSE /\ loc' = [loc EXCEPT ![t] =
                                       [NewLocals EXCEPT !.req = "annotate",
                                                         !.body = b,
                                                         !.text = BodyText(b)]]
                  /\ Call(t, "el_1", "add_append")
    /\ UNCHANGED <<grab, cvars, session, kvars, json_files, timer, down, load, evars>>

\* mutant: the new annotation is put in front
AddItemInFront(anns, item) == <<item>> \o anns

\* self.annotations.append(item)
AddItem(anns, item) == Append(anns, item)

\* item = {"t": float(self.elapsed()), "text": str(text)};
\* self.annotations.append(item); return item
AddAppend(t) ==
    /\ pc[t] = "add_append"
    /\ LET item == [t |-> loc[t].el, text |-> loc[t].text] IN
          /\ session' = [session EXCEPT !.annotations = AddItem(@, item)]
          /\ loc' = Answered(t, "200", <<item>>)
    /\ Goto(t, "idle")
    /\ UNCHANGED <<retpc, exc, grab, cvars, kvars, json_files, timer, down, nReq,
                   load, evars>>

(***************************************************************************)
(* Session.undo, called by thread t.                                       *)
(***************************************************************************)
UndoRequest(t) ==
    /\ Accept(t)
    /\ loc' = Begun(t, "undo")
    /\ Call(t, "undo_chk", "idle")
    /\ UNCHANGED <<grab, cvars, session, kvars, json_files, timer, down, load, evars>>

\* if not self.annotations: return None
UndoCheck(t) ==
    /\ pc[t] = "undo_chk"
    /\ IF session.annotations = <<>>
          THEN /\ loc' = Answered(t, "None", <<>>)
               /\ Return(t)
          ELSE /\ Goto(t, "undo_pop")
               /\ UNCHANGED <<retpc, exc, loc>>
    /\ UNCHANGED <<grab, cvars, session, kvars, json_files, timer, down, nReq,
                   load, evars>>

\* mutant: the oldest annotation is removed
PopFirst(anns) == Tail(anns)

\* list.pop(): the list without its last element, and that element
PopLast(anns) == SubSeq(anns, 1, Len(anns) - 1)
Popped(anns) == anns[Len(anns)]

\* return self.annotations.pop()   (IndexError on an empty list)
UndoPop(t) ==
    /\ pc[t] = "undo_pop"
    /\ IF session.annotations = <<>>
          THEN /\ Raise(t, "IndexError")
               /\ loc' = Answered(t, "500", <<>>)
               /\ UNCHANGED session
          ELSE /\ session' = [session EXCEPT !.annotations = PopLast(@)]
               /\ loc' = Answered(t, "200", <<Popped(session.annotations)>>)
               /\ Return(t)
    /\ UNCHANGED <<grab, cvars, kvars, json_files, timer, down, nReq, load, evars>>

(***************************************************************************)
(* The status handler.                                                     *)
(***************************************************************************)
\* recording = session.recorder.active if (...) else False; ...
\* "elapsed": session.elapsed()
StatusRequest(t) ==
    /\ Accept(t)
    /\ loc' = Begun(t, "status")
    /\ Call(t, "el_1", "st_rest")
    /\ UNCHANGED <<grab, cvars, session, kvars, json_files, timer, down, load, evars>>

\* "count": len(session.annotations), ...; return jsonify(...)
StatusRest(t) ==
    /\ pc[t] = "st_rest"
    /\ loc' = Answered(t, "200", <<>>)
    /\ Goto(t, "idle")
    /\ UNCHANGED <<retpc, exc, grab, cvars, session, kvars, json_files, timer,
                   down, nReq, load, evars>>

(***************************************************************************)
(* The start_session handler, Session.start and Recorder.start.            *)
(***************************************************************************)
\* rec = Recorder(grabber, fps=fps, out_dir=".")
\* session.start(rec): self.started_at_iso = now_utc_iso()
StartSessionRequest(t) ==
    /\ Accept(t)
    /\ nRec < MaxRec
    /\ nRec' = nRec + 1
    /\ loc' = [loc EXCEPT ![t] = [NewLocals EXCEPT !.req = "start",
                                                   !.cur = nRec + 1]]
    /\ session' = [session EXCEPT !.started_at_iso = now_utc_iso]
    /\ Call(t, "ss_t0", "idle")
    /\ UNCHANGED <<grab, cvars, rec, wrec, nRecThreads, pace, json_files, timer, down,
                   load, evars>>

\* self.t0_monotonic = time.perf_counter()
SessionSetT0(t) ==
    /\ pc[t] = "ss_t0"
    /\ session' = [session EXCEPT !.t0_monotonic = now]
    /\ elMax' = 0
    /\ loc' = [r \in Requests |-> [loc[r] EXCEPT !.floor = 0]]
    /\ Goto(t, "ss_clear")
    /\ UNCHANGED <<retpc, exc, grab, cvars, kvars, json_files, timer, down, nReq,
                   elMaxEver, load>>

\* self.annotations.clear()
SessionClear(t) ==
    /\ pc[t] = "ss_clear"
    /\ session' = [session EXCEPT !.annotations = <<>>]
    /\ Goto(t, "ss_setrec")
    /\ UNCHANGED <<retpc, exc, grab, cvars, kvars, qvars, evars>>

\* self.recorder = recorder
SessionSetRecorder(t) ==
    /\ pc[t] = "ss_setrec"
    /\ session' = [session EXCEPT !.recorder = loc[t].cur]
    /\ Call(t, "rs_chk", "ss_path")
    /\ UNCHANGED <<grab, cvars, kvars, qvars, evars>>

\* self.recorder.start(): if self._active: return
RecStartCheck(t) ==
    /\ pc[t] = "rs_chk"
    /\ IF rec[session.recorder].active
          THEN Return(t)
          ELSE Goto(t, "rs_path") /\ UNCHANGED <<retpc, exc>>
    /\ loc' = [loc EXCEPT ![t].started = session.recorder]
    /\ UNCHANGED <<grab, cvars, session, kvars, json_files, timer,
                   down, nReq, load, evars>>

\* self.path = os.path.join(self.out_dir, ts_filename(self.prefix, ".mp4"));
\* self._stop_evt.clear()
RecStartPath(t) ==
    /\ pc[t] = "rs_path"
    /\ rec' = [rec EXCEPT ![loc[t].started].path = ts_filename,
                          ![loc[t].started].stop_evt = FALSE]
    /\ Goto(t, "rs_thread")
    /\ UNCHANGED <<retpc, exc, grab, cvars, session, nRec, wrec, nRecThreads, pace,
                   qvars, evars>>

\* self._thread = threading.Thread(target=self._run, daemon=True);
\* self._thread.start()
RecStartThread(t) ==
    /\ pc[t] = "rs_thread"
    /\ nRecThreads < Len(RecThreadId)
    /\ LET w == RecThreadId[nRecThreads + 1] IN
          /\ nRecThreads' = nRecThreads + 1
          /\ wrec' = [wrec EXCEPT ![w] = loc[t].started]
          /\ rec' = [rec EXCEPT ![loc[t].started].thread = w]
          /\ pc' = [pc EXCEPT ![t] = "rs_active", ![w] = "w_init"]
    /\ UNCHANGED <<retpc, exc, grab, cvars, session, nRec, pace, qvars, evars>>

\* self._active = True
RecStartActive(t) ==
    /\ pc[t] = "rs_active"
    /\ rec' = [rec EXCEPT ![loc[t].started].active = TRUE]
    /\ Return(t)
    /\ UNCHANGED <<grab, cvars, session, nRec, wrec, nRecThreads, pace,
                   qvars, evars>>

\* self.recording_path = recorder.path
SessionSetPath(t) ==
    /\ pc[t] = "ss_path"
    /\ session' = [session EXCEPT !.recording_path = rec[loc[t].cur].path]
    /\ Goto(t, "ss_resp")
    /\ UNCHANGED <<retpc, exc, grab, cvars, kvars, qvars, evars>>

\* return jsonify({"started_at": ..., "recording_path": ...})
StartSessionResp(t) ==
    /\ pc[t] = "ss_resp"
    /\ loc' = Answered(t, "200", <<>>)
    /\ Goto(t, "idle")
    /\ UNCHANGED <<retpc, exc, grab, cvars, session, kvars, json_files, timer,
                   down, nReq, load, evars>>

(***************************************************************************)
(* Recorder._run, the write loop of recorder thread w, with its pacing.    *)
(***************************************************************************)
\* target_dt = 1.0 / max(1e-6, self.fps), in ticks (fps >= 1 here)
TargetDt(fps) == TicksPerSecond \div fps

\* target_dt = ...; next_t = time.perf_counter()
RecInit(w) ==
    /\ pc[w] = "w_init"
    /\ pace' = [pace EXCEPT ![w].target_dt = TargetDt(load.fps),
                            ![w].next_t = now]
    /\ Goto(w, "w_top")
    /\ UNCHANGED <<retpc, exc, grab, cvars, session, rec, nRec, wrec, nRecThreads,
                   qvars, evars>>

\* while not self._stop_evt.is_set(): frame = self.src.get_latest_frame()
RecTop(w) ==
    /\ pc[w] = "w_top"
    /\ IF rec[wrec[w]].stop_evt
          THEN Goto(w, "dead") /\ UNCHANGED <<retpc, exc>>
          ELSE Call(w, "glf_lock", "w_got")
    /\ UNCHANGED <<grab, sess>>

\* if frame is None: time.sleep(0.01); continue
RecGot(w) ==
    /\ pc[w] = "w_got"
    /\ Goto(w, IF ret[w] = <<>> THEN "w_top" ELSE "w_open")
    /\ UNCHANGED <<retpc, exc, grab, sess>>

\* self._open_writer_if_needed(frame)
RecOpenWriter(w) ==
    /\ pc[w] = "w_open"
    /\ IF rec[wrec[w]].writer = "none"
          THEN rec' = [rec EXCEPT ![wrec[w]].writer = "open",
                                  ![wrec[w]].created = @ + 1]
          ELSE UNCHANGED rec
    /\ Goto(w, "w_wchk")
    /\ UNCHANGED <<retpc, exc, grab, cvars, session, nRec, wrec, nRecThreads, pace,
                   qvars, evars>>

\* if self._writer is not None:
RecWriteCheck(w) ==
    /\ pc[w] = "w_wchk"
    /\ Goto(w, IF rec[wrec[w]].writer = "none" THEN "w_pace" ELSE "w_write")
    /\ UNCHANGED <<retpc, exc, grab, sess>>

\*     self._writer.write(frame): the call begins
RecWrite(w) ==
    /\ pc[w] = "w_write"
    /\ IF rec[wrec[w]].writer = "none"
          THEN Raise(w, "AttributeError") /\ UNCHANGED <<rec, pace>>
          ELSE /\ rec' = [rec EXCEPT ![wrec[w]].wrote = ret[w][1]]
               /\ pace' = [pace EXCEPT ![w].writes = Append(@, now)]
               /\ Goto(w, "w_written")
               /\ UNCHANGED <<retpc, exc>>
    /\ UNCHANGED <<grab, cvars, session, nRec, wrec, nRecThreads, qvars, evars>>

\* the last element of a non-empty sequence
Last(q) == q[Len(q)]

\*     self._writer.write(frame): the call returns, WriteTicks later or more
RecWritten(w) ==
    /\ pc[w] = "w_written"
    /\ now >= Last(pace[w].writes) + WriteTicks
    /\ Goto(w, "w_pace")
    /\ UNCHANGED <<retpc, exc, grab, sess>>

\* min(sleep_for, 0.2)
SleepTime(sleep_for) == IF sleep_for < SleepCap THEN sleep_for ELSE SleepCap

\* next_t += target_dt; sleep_for = next_t - time.perf_counter();
\* if sleep_for > 0: time.sleep(min(sleep_for, 0.2))
RecPace(w) ==
    /\ pc[w] = "w_pace"
    /\ LET next_t == pace[w].next_t + pace[w].target_dt
           sleep_for == next_t - now
       IN IF sleep_for > 0
             THEN /\ pace' = [pace EXCEPT ![w].next_t = next_t,
                                          ![w].until = now + SleepTime(sleep_for)]
                  /\ Goto(w, "w_sleep")
             ELSE /\ pace' = [pace EXCEPT ![w].next_t = next_t]
                  /\ Goto(w, "w_reset")
    /\ UNCHANGED <<retpc, exc, grab, cvars, session, rec, nRec, wrec, nRecThreads,
                   qvars, evars>>

\* else: next_t = time.perf_counter()
RecReset(w) ==
    /\ pc[w] = "w_reset"
    /\ pace' = [pace EXCEPT ![w].next_t = now]
    /\ Goto(w, "w_top")
    /\ UNCHANGED <<retpc, exc, grab, cvars, session, rec, nRec, wrec, nRecThreads,
                   qvars, evars>>

\* time.sleep returns, when the time asked for has passed or later
RecWake(w) ==
    /\ pc[w] = "w_sleep"
    /\ now >= pace[w].until
    /\ pace' = [pace EXCEPT ![w].until = 0]
    /\ Goto(w, "w_top")
    /\ UNCHANGED <<retpc, exc, grab, cvars, session, rec, nRec, wrec, nRecThreads,
                   qvars, evars>>

RecStep(w) ==
    \/ RecInit(w) \/ RecTop(w) \/ RecGot(w) \/ RecOpenWriter(w)
    \/ RecWriteCheck(w) \/ RecWrite(w) \/ RecWritten(w) \/ RecPace(w)
    \/ RecReset(w) \/ RecWake(w)

(***************************************************************************)
(* The stop_and_quit handler, Recorder.stop and Session.to_json.           *)
(***************************************************************************)
\* if session.recorder and session.recorder.active:
StopAndQuitRequest(t) ==
    /\ Accept(t)
    /\ loc' = Begun(t, "stop")
    /\ IF session.recorder # 0 /\ rec[session.recorder].active
          THEN Call(t, "k_chk", "tj_start")
          ELSE Call(t, "tj_start", "q_dump")
    /\ UNCHANGED <<grab, cvars, session, kvars, json_files, timer, down, load, evars>>

\* session.recorder.stop(): if not self._active: return
RecStopCheck(t) ==
    /\ pc[t] = "k_chk"
    /\ loc' = [loc EXCEPT ![t].cur = session.recorder]
    /\ IF rec[session.recorder].active
          THEN Goto(t, "k_set") /\ UNCHANGED <<retpc, exc>>
          ELSE Return(t)
    /\ UNCHANGED <<grab, cvars, session, kvars, json_files, timer,
                   down, nReq, load, evars>>

\* self._stop_evt.set()
RecStopSet(t) ==
    /\ pc[t] = "k_set"
    /\ rec' = [rec EXCEPT ![loc[t].cur].stop_evt = TRUE]
    /\ Goto(t, "k_join")
    /\ UNCHANGED <<retpc, exc, grab, cvars, session, nRec, wrec, nRecThreads, pace,
                   qvars, evars>>

\* if self._thread: self._thread.join(timeout=2.0)
RecStopJoin(t) ==
    /\ pc[t] = "k_join"
    /\ Goto(t, "k_rel")
    /\ UNCHANGED <<retpc, exc, grab, sess>>

\* if self._writer is not None: self._writer.release(); self._writer = None
RecStopRelease(t) ==
    /\ pc[t] = "k_rel"
    /\ rec' = [rec EXCEPT ![loc[t].cur].writer = "none"]
    /\ Goto(t, "k_inactive")
    /\ UNCHANGED <<retpc, exc, grab, cvars, session, nRec, wrec, nRecThreads, pace,
                   qvars, evars>>

\* self._active = False
RecStopInactive(t) ==
    /\ pc[t] = "k_inactive"
    /\ rec' = [rec EXCEPT ![loc[t].cur].active = FALSE]
    /\ Return(t)
    /\ UNCHANGED <<grab, cvars, session, nRec, wrec, nRecThreads, pace,
                   qvars, evars>>

\* payload = session.to_json(): "started_at": self.started_at_iso,
\* "duration_sec": self.elapsed(), ...
ToJsonStart(t) ==
    /\ pc[t] = "tj_start"
    /\ loc' = [loc EXCEPT ![t].started_at = session.started_at_iso]
    /\ Call(t, "el_1", "q_dump")
    /\ UNCHANGED <<grab, cvars, session, kvars, json_files, timer, down, nReq,
                   load, evars>>

\* mutant: the duration written is the reading of the clock
to_json_clock(t) ==
    [started_at |-> loc[t].started_at, duration_sec |-> now,
     annotations |-> session.annotations,
     recording |-> session.recording_path]

\* Session.to_json: {"started_at": ..., "duration_sec": float(self.elapsed()),
\* "annotations": self.annotations, "recording": self.recording_path}
to_json(t) ==
    [started_at |-> loc[t].started_at, duration_sec |-> loc[t].el,
     annotations |-> session.annotations,
     recording |-> session.recording_path]

\* json.dump(payload, f): the list is the session's own, written as it is now
StopDump(t) ==
    /\ pc[t] = "q_dump"
    /\ json_files' = <<to_json(t)>>
    /\ Call(t, "stop_set", "q_timer")
    /\ UNCHANGED <<grab, cvars, session, kvars, loc, timer, down, nReq, load,
                   evars>>

\* threading.Timer(0.5, _shutdown).start(); return jsonify({"ok": True, ...})
StopTimer(t) ==
    /\ pc[t] = "q_timer"
    /\ timer' = TRUE
    /\ loc' = Answered(t, "200", <<>>)
    /\ Goto(t, "idle")
    /\ UNCHANGED <<retpc, exc, grab, cvars, session, kvars, json_files, down,
                   nReq, load, evars>>

\* _shutdown: func() stops the server, unless it raises (swallowed)
Shutdown ==
    /\ timer
    /\ ~down
    /\ down' = TRUE
    /\ UNCHANGED <<tvars, grab, cvars, session, kvars, loc, json_files, timer,
                   nReq, load, evars>>

(***************************************************************************)
(* The server with its session: create_app has started the grabber, the    *)
(* source has delivered no frame or one frame and then stalls in read.     *)
(***************************************************************************)
StalledPc == [t \in Threads |->
                 IF t = Main THEN "serving"
                 ELSE IF t \in Requests THEN "idle"
                 ELSE IF t = LoopId[1] THEN "run_read" ELSE "unborn"]

GrabberStalled ==
    /\ retpc = [t \in Threads |-> IF t = Main THEN "serving" ELSE "idle"]
    /\ exc = [t \in Threads |-> "none"]
    /\ g_thread = LoopId[1]
    /\ nThreads = 1
    /\ stop_evt = FALSE
    /\ cap = 1
    /\ status = "streaming"
    /\ frame_lock = "free"
    /\ nHandles = 1
    /\ hopen = {1}
    /\ lcap = [l \in Loops |-> IF l = LoopId[1] THEN 1 ELSE 0]
    /\ fr = [t \in Threads |-> 0]
    /\ cp = [t \in Threads |-> <<>>]
    /\ ret = [t \in Threads |-> <<>>]
    /\ \/ /\ latest_bgr = 0
          /\ pix = [o \in Objects |-> NoFrame]
          /\ nDecoded = 0
          /\ lframe = [l \in Loops |-> 0]
          /\ lastOutcome = "open_ok"
          /\ published = {}
       \/ /\ latest_bgr = 1
          /\ pix = [o \in Objects |-> IF o = 1 THEN Frame(1) ELSE NoFrame]
          /\ nDecoded = 1
          /\ lframe = [l \in Loops |-> IF l = LoopId[1] THEN 1 ELSE 0]
          /\ lastOutcome = "read_ok"
          /\ published = {1}

\* the requests of SpecSession are served one after the other (load.par = 1)
InitStalled == InitSession /\ GrabberStalled /\ pc = StalledPc

NextSession ==
    \/ Tick
    \/ Shutdown
    \/ \E t \in Requests :
          \/ AnnotateRequest(t) \/ UndoRequest(t) \/ StatusRequest(t)
          \/ StartSessionRequest(t) \/ StopAndQuitRequest(t)
    \/ \E t \in Requests : El1(t) \/ El2(t) \/ AddAppend(t)
    \/ \E t \in Requests : UndoCheck(t) \/ UndoPop(t) \/ StatusRest(t)
    \/ \E t \in Requests :
          \/ SessionSetT0(t) \/ SessionClear(t) \/ SessionSetRecorder(t)
          \/ RecStartCheck(t) \/ RecStartPath(t) \/ RecStartThread(t)
          \/ RecStartActive(t) \/ SessionSetPath(t) \/ StartSessionResp(t)
    \/ \E t \in Requests :
          \/ RecStopCheck(t) \/ RecStopSet(t) \/ RecStopJoin(t)
          \/ RecStopRelease(t) \/ RecStopInactive(t)
          \/ ToJsonStart(t) \/ StopDump(t) \/ StopTimer(t)
    \/ \E t \in Requests : StopSet(t) \/ StopJoin(t) \/ StopRelease(t)

SpecSession == InitStalled /\ [][NextSession]_vars

(***************************************************************************)
(* The write loop of a started Recorder in time: the session has been      *)
(* started with one of the fps values, the source has delivered a frame    *)
(* and stalls, so that a frame is always available; the clock advances at  *)
(* any moment, by any amount.                                              *)
(***************************************************************************)
InitPacing ==
    /\ GrabberStalled
    /\ pc = [StalledPc EXCEPT ![RecThreadId[1]] = "w_init"]
    /\ latest_bgr = 1
    /\ now = 0
    /\ session = [NewSession EXCEPT !.started_at_iso = Stamp,
                                    !.t0_monotonic = 0,
                                    !.recorder = 1,
                                    !.recording_path = Stamp]
    /\ rec = [i \in Recs |->
                IF i = 1 THEN [NewRecorder EXCEPT !.path = Stamp,
                                                  !.thread = RecThreadId[1],
                                                  !.active = TRUE]
                         ELSE NewRecorder]
    /\ nRec = 1
    /\ wrec = [w \in RecThreads |-> IF w = RecThreadId[1] THEN 1 ELSE 0]
    /\ nRecThreads = 1
    /\ pace = [w \in RecThreads |-> NewPace]
    /\ loc = [t \in Requests |-> NewLocals]
    /\ json_files = <<>>
    /\ timer = FALSE
    /\ down = FALSE
    /\ nReq = 1
    /\ \E f \in FpsChoices :
          load = [quota |-> 1, par |-> 1, fps |-> f, ticks |-> MaxPaceClock,
               source |-> "any"]
    /\ elMax = 0
    /\ elMaxEver = 0

NextPacing ==
    \/ Tick
    \/ \E w \in RecThreads : RecStep(w) \/ GlfStep(w)

SpecPacing == InitPacing /\ [][NextPacing]_vars

(***************************************************************************)
(* The server with its session under concurrent requests: the threaded     *)
(* server handles two requests at a time; the clients send annotate, undo  *)
(* and start requests.                                                     *)
(***************************************************************************)
InitConcurrent ==
    /\ SessionFresh
    /\ GrabberStalled
    /\ pc = StalledPc
    /\ load = [quota |-> MaxConcurrent, par |-> 2, fps |-> 10, ticks |-> MaxClock,
               source |-> "any"]

NextConcurrent ==
    \/ Tick
    \/ \E t \in Requests :
          AnnotateRequest(t) \/ UndoRequest(t) \/ StartSessionRequest(t)
    \/ \E t \in Requests : El1(t) \/ El2(t) \/ AddAppend(t)
    \/ \E t \in Requests : UndoCheck(t) \/ UndoPop(t)
    \/ \E t \in Requests :
          \/ SessionSetT0(t) \/ SessionClear(t) \/ SessionSetRecorder(t)
          \/ RecStartCheck(t) \/ RecStartPath(t) \/ RecStartThread(t)
          \/ RecStartActive(t) \/ SessionSetPath(t) \/ StartSessionResp(t)

SpecConcurrent == InitConcurrent /\ [][NextConcurrent]_vars

(***************************************************************************)
(* The Recorder's interface called directly: one Recorder, constructed on  *)
(* a grabber that has a frame or has none yet, whose start and stop are    *)
(* called one call after the other while its write loops run.              *)
(***************************************************************************)
\* recorder.start()
ApiRecStart(t) ==
    /\ Accept(t)
    /\ loc' = Begun(t, "rec_start")
    /\ Call(t, "rs_chk", "idle")
    /\ UNCHANGED <<grab, cvars, session, kvars, json_files, timer, down, load, evars>>

\* recorder.stop()
ApiRecStop(t) ==
    /\ Accept(t)
    /\ loc' = Begun(t, "rec_stop")
    /\ Call(t, "k_chk", "idle")
    /\ UNCHANGED <<grab, cvars, session, kvars, json_files, timer, down, load, evars>>

InitRecorder ==
    /\ GrabberStalled
    /\ pc = StalledPc
    /\ now = 0
    /\ session = [NewSession EXCEPT !.recorder = 1]
    /\ rec = [i \in Recs |-> NewRecorder]
    /\ nRec = 1
    /\ wrec = [w \in RecThreads |-> 0]
    /\ nRecThreads = 0
    /\ pace = [w \in RecThreads |-> NewPace]
    /\ loc = [t \in Requests |-> NewLocals]
    /\ json_files = <<>>
    /\ timer = FALSE
    /\ down = FALSE
    /\ nReq = 0
    /\ load = [quota |-> MaxCalls, par |-> 1, fps |-> 10, ticks |-> MaxClock,
               source |-> "any"]
    /\ elMax = 0
    /\ elMaxEver = 0

NextRecorder ==
    \/ Tick
    \/ \E t \in Requests : ApiRecStart(t) \/ ApiRecStop(t)
    \/ \E t \in Requests :
          \/ RecStartCheck(t) \/ RecStartPath(t) \/ RecStartThread(t)
          \/ RecStartActive(t)
    \/ \E t \in Requests :
          \/ RecStopCheck(t) \/ RecStopSet(t) \/ RecStopJoin(t)
          \/ RecStopRelease(t) \/ RecStopInactive(t)
    \/ \E w \in RecThreads : RecStep(w) \/ GlfStep(w)

SpecRecorder == InitRecorder /\ [][NextRecorder]_vars

(***************************************************************************)
(* The grabber's interface called directly from concurrent threads: the    *)
(* request threads call FrameGrabber.start.                                *)
(***************************************************************************)
InStart(t) == pc[t] \in {"start_chk", "start_clear", "start_new"}

ApiStart(t) ==
    /\ pc[t] = "idle"
    /\ nThreads + Cardinality({c \in Requests : InStart(c)}) < Len(LoopId)
    /\ Call(t, "start_chk", "idle")
    /\ UNCHANGED <<gvars, fvars, lvars, rvars, hvars>>
    /\ UNCHANGED sess

InitStart ==
    /\ InitGrabber
    /\ InitSession
    /\ pc = [t \in Threads |-> IF t \in {Main} \cup Requests THEN "idle" ELSE "unborn"]

NextStart ==
    \/ \E t \in Requests : ApiStart(t)
    \/ \E t \in Requests : StartCheck(t) \/ StartClear(t) \/ StartNew(t) \/ StartGo(t)
    \/ \E l \in Loops : LoopStep(l)

SpecStart == InitStart /\ [][NextStart]_vars

(***************************************************************************)
(* Recording from a source that has delivered one frame and delivers      *)
(* every frame: the acquisition loop reads and publishes while the server  *)
(* handles start_session requests, two at a time, and the write loops they *)
(* start record the latest frame.  At 10 frames a second a write that      *)
(* takes a tick leaves the write loop no time to sleep.                    *)
(***************************************************************************)
InitRecording ==
    /\ SessionFresh
    /\ GrabberStalled
    /\ latest_bgr = 1
    /\ pc = StalledPc
    /\ load = [quota |-> MaxRecording, par |-> 2, fps |-> 10, ticks |-> WriteTicks,
               source |-> "good"]

\* the iterations of _run in which read succeeds
ReadAndPublish(l) ==
    \/ RunTop(l) \/ RunCheckCap(l) \/ RunRead(l) \/ RunRead2(l)
    \/ RunLock(l) \/ RunPublish(l)

\* the iterations of Recorder._run that are not ahead of their schedule
WriteBehind(w) ==
    \/ RecInit(w) \/ RecTop(w) \/ RecGot(w) \/ RecOpenWriter(w)
    \/ RecWriteCheck(w) \/ RecWrite(w) \/ RecWritten(w) \/ RecPace(w)
    \/ RecReset(w)

NextRecording ==
    \/ Tick
    \/ \E l \in Loops : ReadAndPublish(l)
    \/ \E t \in Requests : StartSessionRequest(t)
    \/ \E t \in Requests :
          \/ SessionSetT0(t) \/ SessionClear(t) \/ SessionSetRecorder(t)
          \/ RecStartCheck(t) \/ RecStartPath(t) \/ RecStartThread(t)
          \/ RecStartActive(t) \/ SessionSetPath(t) \/ StartSessionResp(t)
    \/ \E w \in RecThreads : WriteBehind(w) \/ GlfStep(w)

SpecRecording == InitRecording /\ [][NextRecording]_vars

(***************************************************************************)
(* Stopping a recording: the server handles start_session and              *)
(* stop_and_quit requests one after the other while the write loops run.   *)
(***************************************************************************)
InitStopping ==
    /\ SessionFresh
    /\ GrabberStalled
    /\ pc = StalledPc
    /\ load = [quota |-> MaxRecording, par |-> 1, fps |-> 10, ticks |-> WriteTicks,
               source |-> "any"]

NextStopping ==
    \/ Tick
    \/ Shutdown
    \/ \E t \in Requests : StartSessionRequest(t) \/ StopAndQuitRequest(t)
    \/ \E t \in Requests :
          \/ SessionSetT0(t) \/ SessionClear(t) \/ SessionSetRecorder(t)
          \/ RecStartCheck(t) \/ RecStartPath(t) \/ RecStartThread(t)
          \/ RecStartActive(t) \/ SessionSetPath(t) \/ StartSessionResp(t)
    \/ \E t \in Requests :
          \/ RecStopCheck(t) \/ RecStopSet(t) \/ RecStopJoin(t)
          \/ RecStopRelease(t) \/ RecStopInactive(t)
          \/ ToJsonStart(t) \/ El1(t) \/ El2(t) \/ StopDump(t) \/ StopTimer(t)
    \/ \E t \in Requests : StopSet(t) \/ StopJoin(t) \/ StopRelease(t)
    \/ \E w \in RecThreads : RecStep(w) \/ GlfStep(w)

SpecStopping == InitStopping /\ [][NextStopping]_vars

(***************************************************************************)
(* The program under fair scheduling.  The source may fail at any open and *)
(* at any read until it recovers for good (Recovers); from then on every   *)
(* open and every read of an open handle succeeds.  Every loop thread, the *)
(* main thread and every thread inside get_latest_frame keeps being        *)
(* scheduled; a thread waiting for the frame lock gets it when it is       *)
(* offered again and again (strong fairness).  Requests need not arrive.   *)
(***************************************************************************)
Recovers ==
    /\ Serving
    /\ load.source = "any"
    /\ load' = [load EXCEPT !.source = "good"]
    /\ UNCHANGED <<tvars, grab, cvars, session, kvars, loc, json_files, timer,
                   down, nReq, evars>>

NextLive == Next \/ Recovers

FairScheduling ==
    /\ \A l \in Loops : SF_vars(LoopStep(l))
    /\ WF_vars(MainStart \/ StartCheck(Main) \/ StartClear(Main)
                         \/ StartNew(Main) \/ StartGo(Main))
    /\ \A t \in Requests : WF_vars(GlfStep(t))

SpecLive == Init /\ [][NextLive]_vars /\ FairScheduling

(***************************************************************************)
(* Claims.                                                                 *)
(***************************************************************************)
Success == {"open_ok", "read_ok"}
Failure == {"open_fail", "read_fail"}
InOpenAttempt(l) == pc[l] \in {"open_try", "open_set", "open_done"}

\* C1 as stated: Status() is streaming after each success of the acquisition
\* loop and error after each failure, with no other value in between until
\* the next successful open.
C1_StatusAsStated ==
    /\ lastOutcome \in Success => status = "streaming"
    /\ lastOutcome \in Failure => status = "error"

\* C1 as amended: Status() is connecting exactly while an open attempt of
\* the loop is in progress (from the moment the loop starts to open the
\* source until the attempt's outcome); outside an open attempt it is
\* streaming after each success and error after each failure, until the
\* next open attempt begins; no other value is observable.
C1_Status ==
    IF \E l \in Loops : InOpenAttempt(l)
       THEN status = "connecting"
       ELSE /\ lastOutcome \in Success => status = "streaming"
            /\ lastOutcome \in Failure => status = "error"
            /\ lastOutcome = "none" => status = "idle"

\* a failure, a reconnect and a success have happened
C1_Witness ==
    /\ lastOutcome = "open_ok"
    /\ nHandles = 2
    /\ status = "streaming"

\* C2: get_latest_frame returns nothing in every state before the first
\* frame is published; once a frame has been published the slot holds a
\* frame in every later state and every call returns one, through read
\* failures and reconnects.
C2_LatestFramePresent ==
    /\ [](published = {} <=> latest_bgr = 0)
    /\ [][\A t \in Requests :
             (pc[t] \in {"glf_ref", "glf_copy"} /\ pc'[t] = "idle")
                => (ret'[t] = <<>> <=> published = {})]_vars

\* a frame was published, then a read failed and the handle was released:
\* the frame is still there and a reader has been given it
C2_Witness ==
    /\ published # {}
    /\ lastOutcome = "read_fail"
    /\ cap = 0
    /\ latest_bgr # 0
    /\ \E t \in Requests : ret[t] # <<>>

\* C3: every get_latest_frame call returns a complete copy of exactly one
\* published frame, never a mixture of two, in every interleaving of the
\* readers with the publishing loop.
C3_NoTornFrame ==
    \A t \in Requests :
       /\ \A i \in 1..Len(cp[t]) : cp[t][i] = cp[t][1]
       /\ ret[t] # <<>> => \E n \in published : ret[t] = Frame(n)

\* one reader is in the middle of its copy of frame 1 while the loop waits
\* for the lock to publish frame 2, and the other reader has returned
C3_Witness ==
    /\ \E t \in Requests : pc[t] = "glf_copy" /\ cp[t] = <<1>>
    /\ \E l \in Loops : pc[l] = "run_lock" /\ lframe[l] = 2
    /\ \E t \in Requests : ret[t] = Frame(1)

(***************************************************************************)
(* Claims about the Session, checked under SpecSession.                    *)
(***************************************************************************)
\* thread t returns from Session.elapsed in this step
ElReturns(t) == pc[t] \in {"el_1", "el_2"} /\ pc'[t] \notin {"el_1", "el_2"}

\* the largest value elapsed() had returned when t's call began, counted
\* since the last assignment of t0_monotonic
FloorOf(t) == IF pc[t] = "el_1" THEN elMax ELSE loc[t].floor

\* the same, counted over the whole life of the session
FloorEverOf(t) == IF pc[t] = "el_1" THEN elMaxEver ELSE loc[t].floorEver

AnnotateAccepted(t) ==
    pc[t] = "idle" /\ nReq' = nReq + 1 /\ loc'[t].req = "annotate"

C6_AddAppendsOne ==
    [][\A t \in Requests :
          (pc[t] = "add_append" /\ pc'[t] # "add_append")
             => LET item == [t |-> loc[t].el, text |-> loc[t].text] IN
                   /\ loc[t].text # <<>>
                   /\ session'.annotations = Append(session.annotations, item)
                   /\ session' = [session EXCEPT !.annotations = session'.annotations]
                   /\ loc'[t].item = <<item>>
                   /\ loc'[t].resp = "200"]_vars

\* an annotation has been added behind another one, with a later time
C6_Witness ==
    /\ Len(session.annotations) = 2
    /\ session.annotations[1].text # session.annotations[2].text
    /\ \E t \in Requests : /\ loc[t].req = "annotate"
                            /\ loc[t].resp = "200"
                            /\ loc[t].item = <<session.annotations[2]>>
                            /\ loc[t].item[1].t > 0

\* C7: Session.undo on a non-empty list removes and returns the last
\* annotation, so the list is again what it was before that annotation was
\* added; on an empty list it returns None and changes nothing.
C7_UndoRemovesLast ==
    [][\A t \in Requests :
          /\ (pc[t] = "undo_chk" /\ pc'[t] # "undo_chk"
                 /\ session.annotations = <<>>)
                => /\ loc'[t].resp = "None"
                   /\ pc'[t] = "idle"
                   /\ exc'[t] = "none"
                   /\ session' = session
          /\ (pc[t] = "undo_pop" /\ pc'[t] # "undo_pop"
                 /\ session.annotations # <<>>)
                => /\ loc'[t].resp = "200"
                   /\ Len(loc'[t].item) = 1
                   /\ session.annotations =
                         Append(session'.annotations, loc'[t].item[1])
                   /\ session' = [session EXCEPT !.annotations = session'.annotations]]_vars

\* two annotations were added and undo has given back the second
C7_Witness ==
    /\ Len(session.annotations) = 1
    /\ \E t \in Requests : /\ loc[t].req = "undo"
                            /\ loc[t].resp = "200"
                            /\ Len(loc[t].item) = 1
                            /\ loc[t].item[1].text # session.annotations[1].text

\* ceil(a / b) for a >= 0, b > 0
Ceil(a, b) == (a + b - 1) \div b

\* writes i..j of recorder thread w are no more than the bound allows for
\* the time from the one to the other
WithinBound(w, i, j) ==
    LET D == pace[w].writes[j] - pace[w].writes[i] IN
       j - i + 1 <= Ceil(D * load.fps, TicksPerSecond) + 1

\* C8 as stated: with a frame always available, over any interval of wall
\* time of length D the write loop writes at most ceil(D * fps) + 1 frames,
\* for every target fps.
C8_PacingBound ==
    \A w \in RecThreads :
       \A i \in 1..Len(pace[w].writes) :
          \A j \in i..Len(pace[w].writes) : WithinBound(w, i, j)

\* the same bound, for the target rates whose interval is no longer than
\* the longest sleep
PacingBoundFromFiveFps ==
    load.fps * SleepCap >= TicksPerSecond => C8_PacingBound

\* Start has not been called on the session
NeverStarted == session.started_at_iso = NoStamp

\* what the stop control operation does besides writing the record, on a
\* session that was never started: no Recorder exists, none was stopped, no
\* handler raised
C9_NoRecorderNoError ==
    /\ nRec = 0
    /\ \A k \in Recs : rec[k] = NewRecorder
    /\ \A t \in Requests : exc[t] = "none"

\* C9 as stated: the stop control operation on a session that was never
\* started raises no error and writes a record with duration_sec = 0, an
\* empty annotations list and recording = null, without stopping or creating
\* a Recorder.
C9_StopAsStated ==
    (NeverStarted /\ json_files # <<>>)
       => /\ json_files[1].duration_sec = 0
          /\ json_files[1].annotations = <<>>
          /\ json_files[1].recording = NoStamp
          /\ C9_NoRecorderNoError

\* C9: the stop control operation on a session that was never started
\* raises no error and writes a record with duration_sec = 0, recording =
\* null and the annotations added so far, each with t = 0 (the empty list
\* when none was added), without stopping or creating a Recorder.
C9_StopNeverStarted ==
    /\ []((NeverStarted /\ json_files # <<>>)
            => /\ json_files[1].duration_sec = 0
               /\ json_files[1].recording = NoStamp
               /\ \A i \in 1..Len(json_files[1].annotations) :
                     json_files[1].annotations[i].t = 0
               /\ C9_NoRecorderNoError)
    /\ [][\A t \in Requests :
             (pc[t] = "q_dump" /\ pc'[t] # "q_dump")
                => json_files'[1].annotations = session.annotations]_vars

\* the record of a session that was never started but holds an annotation
\* has been written after the clock has advanced, and the request has been
\* answered
C9_Witness ==
    /\ NeverStarted
    /\ json_files # <<>>
    /\ json_files[1].annotations # <<>>
    /\ now > 0
    /\ \E t \in Requests : loc[t].req = "stop" /\ loc[t].resp = "200"

\* C10 as stated: after any interleaving of start() calls at most one
\* acquisition loop is running.
C10_AtMostOneLoop ==
    Cardinality({l \in Loops : Alive(l)}) <= 1

(***************************************************************************)
(* Claims about stopping the grabber, checked under Spec.                  *)
(***************************************************************************)
\* thread t is inside FrameGrabber.stop
InStop(t) == pc[t] \in {"stop_set", "stop_join", "stop_rel"}

\* stop() was called, every call of it has returned, and the loop thread
\* has ended
StoppedAndExited ==
    /\ stop_evt
    /\ \A t \in Requests : ~InStop(t)
    /\ g_thread # "none" /\ pc[g_thread] = "dead"

\* C11 as stated: after Stop() has returned and the acquisition loop has
\* exited, no capture handle is open, in every interleaving of Stop() with
\* the loop.
C11_NoHandleLeftOpen == StoppedAndExited => hopen = {}

(***************************************************************************)
(* Claims about the Recorder, checked under SpecRecorder.                  *)
(***************************************************************************)
\* thread t returns from Recorder.stop in this step, having found the
\* Recorder inactive
StopReturnsInactive(t) == pc[t] = "k_chk" /\ pc'[t] = retpc[t]

\* thread t returns from Recorder.stop in this step, having stopped it
StopReturnsStopped(t) == pc[t] = "k_inactive" /\ pc'[t] = retpc[t]

\* C12 as stated: a Stop() on a Recorder that is not active changes no
\* state; a Stop() on an active Recorder ends with Active() = false and no
\* encoder handle held, whether or not a frame was ever written.
C12_StopIdempotent ==
    [][\A t \in Requests :
          /\ StopReturnsInactive(t) => UNCHANGED <<rec, session, pace>>
          /\ StopReturnsStopped(t)
                => /\ ~rec'[loc[t].cur].active
                   /\ rec'[loc[t].cur].writer = "none"]_vars

(***************************************************************************)
(* Claims about the Session and its Recorders, checked under SpecSession.  *)
(***************************************************************************)
\* the Recorders whose write loop was started and not stopped
ActiveRecorders == {k \in Recs : rec[k].active}

\* C13 as stated: after any sequence of begin-session, annotate and stop
\* control operations at most one Recorder is active, and it is the one
\* the Session references.
C13_OneActiveRecorder ==
    (\A t \in Requests : pc[t] = "idle")
       => /\ Cardinality(ActiveRecorders) <= 1
          /\ \A k \in ActiveRecorders : session.recorder = k

\* C14 as stated: the Session goes from not started to active to ended and
\* no other way: no Start resets the timing reference, the annotation list
\* or the Recorder of a Session that is active or ended.
C14_NoRestart ==
    [][/\ session.t0_monotonic # None
            => session'.t0_monotonic = session.t0_monotonic
       /\ session.recorder # 0
            => session'.recorder = session.recorder
       /\ \A t \in Requests :
             (pc[t] = "ss_clear" /\ pc'[t] # "ss_clear")
                => session.recorder = 0]_vars

(***************************************************************************)
(* The annotation list under concurrent requests, checked under            *)
(* SpecConcurrent.                                                         *)
(***************************************************************************)
\* C15 as stated: in every reachable state the annotation list is in
\* chronological order, under any interleaving of concurrent Add, Undo and
\* Start requests.
C15_Chronological ==
    \A i \in 1..Len(session.annotations) :
       \A j \in i..Len(session.annotations) :
          session.annotations[i].t <= session.annotations[j].t

(***************************************************************************)
(* Handles in use, checked under Spec.                                     *)
(***************************************************************************)
\* loop thread l was ended by the read of a capture handle that stop had
\* cleared, or recorder thread l by the write to an encoder handle that
\* stop had cleared
UsedClearedHandle(l) == exc[l] = "AttributeError"

\* C16 as stated: in every interleaving of Stop() with its loop, the
\* acquisition loop never reads from a capture handle that Stop() has
\* released or cleared, and the write loop never writes to an encoder
\* handle that Stop() has released or cleared.
C16_NoCloseWhileInUse ==
    \A l \in Loops \cup RecThreads : ~UsedClearedHandle(l)

(***************************************************************************)
(* The encoder of a Recorder, checked under SpecRecorder.                  *)
(***************************************************************************)
\* C17 as stated: for each Recorder the encoder is created at most once
\* over the Recorder's whole life, across any sequence and interleaving of
\* Start(), Stop() and write-loop steps, and no frame is written before the
\* encoder exists.
C17_EncoderCreatedOnce ==
    \A k \in Recs :
       /\ rec[k].created <= 1
       /\ (rec[k].wrote # 0 => rec[k].created >= 1)

(***************************************************************************)
(* Progress of the acquisition loop, checked under SpecLive.               *)
(***************************************************************************)
\* an open attempt or a read of loop l has just failed
JustFailed(l) == pc[l] \in {"read_fail", "run_release", "run_sleep"}

\* loop l is at cv2.VideoCapture(self.source)
OpenAttempt(l) == pc[l] = "open_try"

\* the run can still open a handle and decode a frame
HeadRoom == nHandles < MaxHandles /\ nDecoded < MaxFrames

\* C18: under fair scheduling and while no stop is signalled, every open
\* failure and every read failure is eventually followed by a new open
\* attempt; and once the source succeeds for good, the status is eventually
\* "streaming" with a new frame published.
C18_LoopNeverWedges ==
    /\ (\E l \in Loops : JustFailed(l))
          ~> (stop_evt \/ \E l \in Loops : OpenAttempt(l))
    /\ \A n \in 0..(MaxFrames - 1) :
          (load.source = "good" /\ HeadRoom /\ Cardinality(published) = n)
             ~> (stop_evt \/ (status = "streaming" /\ Cardinality(published) > n))

\* the source has recovered after a failure, and the loop has published a
\* frame since with the status "streaming" and no stop signalled
C18_Witness ==
    /\ load.source = "good"
    /\ ~stop_evt
    /\ status = "streaming"
    /\ lastOutcome = "read_ok"
    /\ nHandles >= 2
    /\ published # {}

(***************************************************************************)
(* The order of the frames, checked under SpecRecording.                   *)
(***************************************************************************)
\* the number of frame copy c: the acquisition loop numbers the frames in
\* the order it decodes them
FrameNo(c) == c[1]

\* C19 as stated: the frames successive get_latest_frame calls return to
\* one reader, and the frames written by a Recorder, never go back in
\* frame number.
C19_NoReorder ==
    [][/\ \A t \in Threads :
             (ret[t] # <<>> /\ ret'[t] # <<>>) => FrameNo(ret'[t]) >= FrameNo(ret[t])
       /\ \A k \in Recs :
             (rec[k].wrote # 0) => rec'[k].wrote >= rec[k].wrote]_vars

(***************************************************************************)
(* The order of the steps of stop_and_quit, checked under SpecStopping.    *)
(***************************************************************************)
\* thread t handles a stop_and_quit request
Stopping(t) == loc[t].req = "stop" /\ pc[t] # "idle"

\* the Session has no Recorder, or its Recorder is stopped: not active
SessionRecorderStopped ==
    session.recorder # 0 => ~rec[session.recorder].active

\* the Session has no Recorder, or its Recorder's encoder is released
SessionRecorderFinalized ==
    session.recorder # 0 => rec[session.recorder].writer = "none"

\* C20 as stated: when stop_and_quit comes to serialize the Session record,
\* the Session's Recorder is stopped and finalized; the grabber's stop is
\* begun only after the record has been written; and when the handler
\* completes, the Session's Recorder is not active and the acquisition
\* loop has been signalled to stop.
C20_StopOrder ==
    \A t \in Requests :
       /\ (Stopping(t) /\ pc[t] = "tj_start")
             => (SessionRecorderStopped /\ SessionRecorderFinalized)
       /\ (Stopping(t) /\ pc[t] = "stop_set") => json_files # <<>>
       /\ (Stopping(t) /\ pc[t] = "q_timer")
             => (SessionRecorderStopped /\ stop_evt)

=============================================================================
